---- MODULE Spec2Model ----
(***************************************************************************)
(* Model of the indexical bit-set backends (src/impls/bv.rs,               *)
(* src/impls/rustc.rs), the sparse IndexMatrix (src/matrix.rs) and the     *)
(* JoinSemiLattice adapter (src/impls/rustc.rs).                           *)
(*                                                                         *)
(* A bit-set is a record [len, bits]: len is the number of addressable     *)
(* bits (BitVec::len / rustc BitSet::domain_size) and bits the set of      *)
(* indices that are set.  An IndexSet is [set, domain]; a matrix is        *)
(* [matrix, empty_set, col_domain] with matrix a function whose DOMAIN is  *)
(* the set of materialized row keys (the FxHashMap).                       *)
(***************************************************************************)
EXTENDS Integers, FiniteSets, Sequences, TLC

\* Number of row keys and cardinality of a column domain.
NRows == 2
NCols == 2

Rows == 0 .. (NRows - 1)

\* Two domain handles.  Both enumerate NCols values: value-equal domains
\* behind different pointers.
Domains == {"d1", "d2"}
DomSize(d) == NCols
Indices(d) == 0 .. (DomSize(d) - 1)

Backends == {"bitvec", "rustc"}

NoArg == 0 - 1

VARIABLES
    backend,  \* the BitSet implementation S the types are instantiated with
    m,        \* the matrix under test (self)
    other,    \* a second matrix, the argument of join / clone_from / ==
    call,     \* the last call made: [op, a, b]
    ret,      \* what the last call returned
    fault,    \* TRUE once a call has panicked
    bs,       \* bit-set under test (bit-set level specification)
    bo,       \* the other bit-set operand
    joins     \* number of join calls on m that returned true

vars == <<backend, m, other, call, ret, fault, bs, bo, joins>>

----------------------------------------------------------------------------
(* BitVec backend: src/impls/bv.rs                                         *)

BvEmpty(size) == [len |-> size, bits |-> {}]

\* self[index]: indexing past the length panics.
BvContains(s, index) == [ret |-> index \in s.bits, panic |-> index >= s.len]

BvInsert(s, index) ==
    IF index >= s.len
    THEN [set |-> s, ret |-> FALSE, panic |-> TRUE]
    ELSE LET contained == index \in s.bits
         IN  [set |-> [s EXCEPT !.bits = @ \cup {index}],
              ret |-> ~contained, panic |-> FALSE]

BvLen(s) == Cardinality(s.bits)

\* `*self |= other`: bitvec pairs the bits of both operands and stops at the
\* shorter one; the length of self is never changed.
BvOrAssign(s, o) == [s EXCEPT !.bits = @ \cup {i \in o.bits : i < s.len}]

\* `*self &= other`, paired the same way.
BvAndAssign(s, o) == [s EXCEPT !.bits = {i \in @ : i \in o.bits \/ i >= o.len}]

\* Mutant of BvUnion: the counts are compared with >= instead of !=.
BvUnionReportsAlways(s, o) ==
    LET n == BvLen(s)
        t == BvOrAssign(s, o)
    IN  [set |-> t, other |-> o, ret |-> BvLen(t) >= n, panic |-> FALSE]

BvUnion(s, o) ==
    LET n == BvLen(s)
        t == BvOrAssign(s, o)
    IN  [set |-> t, other |-> o, ret |-> BvLen(t) # n, panic |-> FALSE]

BvIntersect(s, o) ==
    LET n == BvLen(s)
        t == BvAndAssign(s, o)
    IN  [set |-> t, other |-> o, ret |-> BvLen(t) # n, panic |-> FALSE]

\* `!this`: every bit below the length is flipped.
BvInvert(s) == [s EXCEPT !.bits = (0 .. (s.len - 1)) \ @]

\* `self.clear()` resolves to the inherent BitVec::clear, which like
\* Vec::clear removes every bit: the length becomes 0.
BvClear(s) == [len |-> 0, bits |-> {}]

\* Mutant of BvSubtract: other itself is inverted, not a copy of it.
BvSubtractInvertsOther(s, o) ==
    LET inverted == BvInvert(o)
        r == BvIntersect(s, inverted)
    IN  [r EXCEPT !.other = inverted]

BvSubtract(s, o) ==
    LET other_copy == BvInvert(o)
        r == BvIntersect(s, other_copy)
    IN  [r EXCEPT !.other = o]

\* BitVec does not override copy_from; the trait default is a structural
\* assignment.
BvCopyFrom(s, o) == o

----------------------------------------------------------------------------
(* rustc backend: src/impls/rustc.rs.  rustc_index's BitSet asserts that   *)
(* an index is below domain_size and that both operands of a binary        *)
(* operation have the same domain_size, and reports whether any word of    *)
(* self changed.                                                           *)

RsEmpty(size) == [len |-> size, bits |-> {}]

RsContains(s, index) == [ret |-> index \in s.bits, panic |-> index >= s.len]

RsInsert(s, index) ==
    IF index >= s.len
    THEN [set |-> s, ret |-> FALSE, panic |-> TRUE]
    ELSE LET t == [s EXCEPT !.bits = @ \cup {index}]
         IN  [set |-> t, ret |-> t.bits # s.bits, panic |-> FALSE]

RsLen(s) == Cardinality(s.bits)

RsBinary(s, o, bits) ==
    IF s.len # o.len
    THEN [set |-> s, other |-> o, ret |-> FALSE, panic |-> TRUE]
    ELSE [set |-> [s EXCEPT !.bits = bits], other |-> o,
          ret |-> bits # s.bits, panic |-> FALSE]

RsUnionChanged(s, o) == RsBinary(s, o, s.bits \cup o.bits)

RsIntersectChanged(s, o) == RsBinary(s, o, s.bits \cap o.bits)

RsSubtractChanged(s, o) == RsBinary(s, o, s.bits \ o.bits)

RsClear(s) == [s EXCEPT !.bits = {}]

RsInvert(s) ==
    LET inverted == [len |-> s.len, bits |-> 0 .. (s.len - 1)]
    IN  RsSubtractChanged(inverted, s).set

RsCopyFrom(s, o) == o

----------------------------------------------------------------------------
(* The BitSet trait, dispatched on the backend.                            *)

Empty(be, size) == IF be = "bitvec" THEN BvEmpty(size) ELSE RsEmpty(size)

Contains(be, s, i) == IF be = "bitvec" THEN BvContains(s, i) ELSE RsContains(s, i)

Insert(be, s, i) == IF be = "bitvec" THEN BvInsert(s, i) ELSE RsInsert(s, i)

BitLen(be, s) == IF be = "bitvec" THEN BvLen(s) ELSE RsLen(s)

UnionChanged(be, s, o) ==
    IF be = "bitvec" THEN BvUnion(s, o) ELSE RsUnionChanged(s, o)

IntersectChanged(be, s, o) ==
    IF be = "bitvec" THEN BvIntersect(s, o) ELSE RsIntersectChanged(s, o)

SubtractChanged(be, s, o) ==
    IF be = "bitvec" THEN BvSubtract(s, o) ELSE RsSubtractChanged(s, o)

Clear(be, s) == IF be = "bitvec" THEN BvClear(s) ELSE RsClear(s)

Invert(be, s) == IF be = "bitvec" THEN BvInvert(s) ELSE RsInvert(s)

CopyFrom(be, s, o) == IF be = "bitvec" THEN BvCopyFrom(s, o) ELSE RsCopyFrom(s, o)

----------------------------------------------------------------------------
(* IndexSet: a bit-set over indices plus the handle of its domain.         *)

IndexSetNew(be, d) == [set |-> Empty(be, DomSize(d)), domain |-> d]

IndexSetInsert(be, x, i) ==
    LET r == Insert(be, x.set, i)
    IN  [set |-> [x EXCEPT !.set = r.set], ret |-> r.ret, panic |-> r.panic]

IndexSetUnionChanged(be, x, y) ==
    LET r == UnionChanged(be, x.set, y.set)
    IN  [set |-> [x EXCEPT !.set = r.set], ret |-> r.ret, panic |-> r.panic]

IndexSetClear(be, x) == [x EXCEPT !.set = Clear(be, @)]

IndexSetCloneFrom(be, x, source) ==
    [set |-> CopyFrom(be, x.set, source.set), domain |-> source.domain]

\* Structural equality compares the member indices only.
IndexSetEq(x, y) == x.set.bits = y.set.bits

\* iter(): the members in ascending index order.
RECURSIVE Ascending(_)
Ascending(S) ==
    IF S = {} THEN << >>
    ELSE LET lo == CHOOSE i \in S : \A j \in S : i <= j
         IN  <<lo>> \o Ascending(S \ {lo})

IndexSetIter(x) == Ascending(x.set.bits)

----------------------------------------------------------------------------
(* IndexMatrix: src/matrix.rs                                              *)

EmptyMap == [r \in {} |-> 0]

new(be, col_domain) ==
    [matrix |-> EmptyMap,
     empty_set |-> IndexSetNew(be, col_domain),
     col_domain |-> col_domain]

\* entry(row).or_insert_with(|| self.empty_set.clone())
ensure_row(mx, row) ==
    IF row \in DOMAIN mx.matrix
    THEN mx
    ELSE [mx EXCEPT !.matrix =
            [r \in (DOMAIN mx.matrix) \cup {row} |->
                IF r = row THEN mx.empty_set ELSE mx.matrix[r]]]

insert(be, mx, row, col) ==
    LET e == ensure_row(mx, row)
        r == IndexSetInsert(be, e.matrix[row], col)
    IN  [m |-> [e EXCEPT !.matrix[row] = r.set], ret |-> r.ret, panic |-> r.panic]

union_into_row(be, mx, into, from) ==
    LET e == ensure_row(mx, into)
        r == IndexSetUnionChanged(be, e.matrix[into], from)
    IN  [m |-> [e EXCEPT !.matrix[into] = r.set], ret |-> r.ret, panic |-> r.panic]

\* Mutant of union_rows: the from == to early return is missing.
union_rows_unguarded(be, mx, from, to) ==
    LET e == ensure_row(ensure_row(mx, from), to)
        r == IndexSetUnionChanged(be, e.matrix[to], e.matrix[from])
    IN  [m |-> [e EXCEPT !.matrix[to] = r.set], ret |-> r.ret, panic |-> r.panic]

union_rows(be, mx, from, to) ==
    IF from = to
    THEN [m |-> mx, ret |-> FALSE, panic |-> FALSE]
    ELSE LET e == ensure_row(ensure_row(mx, from), to)
             r == IndexSetUnionChanged(be, e.matrix[to], e.matrix[from])
         IN  [m |-> [e EXCEPT !.matrix[to] = r.set],
              ret |-> r.ret, panic |-> r.panic]

row(mx, r) ==
    IF r \in DOMAIN mx.matrix THEN IndexSetIter(mx.matrix[r]) ELSE << >>

rows(mx) == DOMAIN mx.matrix

row_set(mx, r) ==
    IF r \in DOMAIN mx.matrix THEN mx.matrix[r] ELSE mx.empty_set

clear_row(mx, r) ==
    [mx EXCEPT !.matrix = [k \in (DOMAIN mx.matrix) \ {r} |-> mx.matrix[k]]]

\* self.matrix == other.matrix: the same keys, and equal sets under each key.
eq(mx, oth) ==
    /\ DOMAIN mx.matrix = DOMAIN oth.matrix
    /\ \A r \in DOMAIN mx.matrix : IndexSetEq(mx.matrix[r], oth.matrix[r])

clone(mx) ==
    [matrix |-> mx.matrix, empty_set |-> mx.empty_set, col_domain |-> mx.col_domain]

\* The first loop clears every set self holds; the second walks the rows of
\* source (distinct keys, so the order does not matter) and clones each into
\* the row ensure_row returns.
clone_from(be, mx, source) ==
    LET cleared == [mx EXCEPT !.matrix =
                      [r \in DOMAIN mx.matrix |-> IndexSetClear(be, mx.matrix[r])]]
        filled == [r \in (DOMAIN cleared.matrix) \cup (DOMAIN source.matrix) |->
                      IF r \in DOMAIN source.matrix
                      THEN IndexSetCloneFrom(be, ensure_row(cleared, r).matrix[r],
                                             source.matrix[r])
                      ELSE cleared.matrix[r]]
    IN  [matrix |-> filled,
         empty_set |-> source.empty_set,
         col_domain |-> source.col_domain]

----------------------------------------------------------------------------
(* JoinSemiLattice: src/impls/rustc.rs                                     *)

IndexSetJoin(be, x, y) == IndexSetUnionChanged(be, x, y)

\* for (row, col) in other.matrix.iter() { changed |= ... }
RECURSIVE JoinLoop(_, _, _, _)
JoinLoop(be, acc, oth, todo) ==
    IF todo = {} THEN acc
    ELSE LET r == CHOOSE k \in todo : TRUE
             e == ensure_row(acc.m, r)
             u == IndexSetUnionChanged(be, e.matrix[r], oth.matrix[r])
             next == [m |-> [e EXCEPT !.matrix[r] = u.set],
                      ret |-> (acc.ret \/ u.ret),
                      panic |-> (acc.panic \/ u.panic)]
         IN  JoinLoop(be, next, oth, todo \ {r})

\* Mutant of join: changed is set for every row of other that is visited.
join_reports_visited(be, mx, oth) ==
    LET r == JoinLoop(be, [m |-> mx, ret |-> FALSE, panic |-> FALSE], oth,
                      DOMAIN oth.matrix)
    IN  [r EXCEPT !.ret = (DOMAIN oth.matrix # {})]

join(be, mx, oth) ==
    JoinLoop(be, [m |-> mx, ret |-> FALSE, panic |-> FALSE], oth, DOMAIN oth.matrix)

----------------------------------------------------------------------------
(* Matrix-level state machine.  The calls under study are made on m; other *)
(* is a second matrix, cloned from m or built by its own inserts, and is   *)
(* the argument of the binary calls.                                       *)

Call(op, a, b) == [op |-> op, a |-> a, b |-> b]

InitWith(d_self, d_other) ==
    /\ backend \in Backends
    /\ m = new(backend, d_self)
    /\ other = new(backend, d_other)
    /\ call = Call("new", NoArg, NoArg)
    /\ ret = FALSE
    /\ fault = FALSE
    /\ bs = Empty(backend, NCols)
    /\ bo = Empty(backend, NCols)
    /\ joins = 0

Init == InitWith("d1", "d1")

\* A call on m that returns res = [m, ret, panic]; a panic ends the run.
Returns(res) ==
    IF res.panic
    THEN fault' = TRUE /\ m' = m /\ ret' = FALSE
    ELSE fault' = FALSE /\ m' = res.m /\ ret' = res.ret

MatrixInsert(r, c) ==
    /\ ~fault
    /\ call' = Call("insert", r, c)
    /\ Returns(insert(backend, m, r, c))
    /\ UNCHANGED <<backend, other, bs, bo, joins>>

\* m.union_into_row(into, other.row_set(r))
MatrixUnionIntoRow(into, r) ==
    /\ ~fault
    /\ call' = Call("union_into_row", into, r)
    /\ Returns(union_into_row(backend, m, into, row_set(other, r)))
    /\ UNCHANGED <<backend, other, bs, bo, joins>>

MatrixUnionRows(from, to) ==
    /\ ~fault
    /\ call' = Call("union_rows", from, to)
    /\ Returns(union_rows(backend, m, from, to))
    /\ UNCHANGED <<backend, other, bs, bo, joins>>

MatrixClearRow(r) ==
    /\ ~fault
    /\ call' = Call("clear_row", r, NoArg)
    /\ Returns([m |-> clear_row(m, r), ret |-> FALSE, panic |-> FALSE])
    /\ UNCHANGED <<backend, other, bs, bo, joins>>

\* let other = m.clone()
MatrixClone ==
    /\ ~fault
    /\ call' = Call("clone", NoArg, NoArg)
    /\ other' = clone(m)
    /\ ret' = FALSE
    /\ UNCHANGED <<backend, m, fault, bs, bo, joins>>

\* other.insert(r, c): the second matrix is built by the same calls.
OtherInsert(r, c) ==
    /\ ~fault
    /\ call' = Call("other", NoArg, NoArg)
    /\ LET res == insert(backend, other, r, c)
       IN  IF res.panic
           THEN fault' = TRUE /\ other' = other
           ELSE fault' = FALSE /\ other' = res.m
    /\ ret' = FALSE
    /\ UNCHANGED <<backend, m, bs, bo, joins>>

\* other.clear_row(r)
OtherClearRow(r) ==
    /\ ~fault
    /\ call' = Call("other", NoArg, NoArg)
    /\ other' = clear_row(other, r)
    /\ ret' = FALSE
    /\ UNCHANGED <<backend, m, fault, bs, bo, joins>>

\* m.clone_from(&other)
MatrixCloneFrom ==
    /\ ~fault
    /\ call' = Call("clone_from", NoArg, NoArg)
    /\ Returns([m |-> clone_from(backend, m, other), ret |-> FALSE, panic |-> FALSE])
    /\ UNCHANGED <<backend, other, bs, bo, joins>>

\* m.join(&other).  call.a = 1 marks a join that immediately follows a join
\* with the same argument or the cloning of m into other, 0 any other join.
MatrixJoin ==
    /\ ~fault
    /\ call' = Call("join", IF call.op \in {"join", "clone"} THEN 1 ELSE 0, NoArg)
    /\ Returns(join(backend, m, other))
    /\ UNCHANGED <<backend, other, bs, bo, joins>>

\* m == other
MatrixEq ==
    /\ ~fault
    /\ call' = Call("eq", NoArg, NoArg)
    /\ ret' = eq(m, other)
    /\ UNCHANGED <<backend, m, other, fault, bs, bo, joins>>

Next ==
    \/ \E r \in Rows : \E c \in Indices(m.col_domain) : MatrixInsert(r, c)
    \/ \E into \in Rows : \E r \in Rows : MatrixUnionIntoRow(into, r)
    \/ \E from \in Rows : \E to \in Rows : MatrixUnionRows(from, to)
    \/ \E r \in Rows : MatrixClearRow(r)
    \/ MatrixClone
    \/ \E r \in Rows : \E c \in Indices(other.col_domain) : OtherInsert(r, c)
    \/ \E r \in Rows : OtherClearRow(r)
    \/ MatrixCloneFrom
    \/ MatrixJoin
    \/ MatrixEq

Spec == Init /\ [][Next]_vars

\* The same machine with the two matrices created over different domains.
InitDom == InitWith("d1", "d2")

SpecDom == InitDom /\ [][Next]_vars

\* One matrix used against an argument that stays as constructed: every
\* call but clone.
NextRows ==
    \/ \E r \in Rows : \E c \in Indices(m.col_domain) : MatrixInsert(r, c)
    \/ \E into \in Rows : \E r \in Rows : MatrixUnionIntoRow(into, r)
    \/ \E from \in Rows : \E to \in Rows : MatrixUnionRows(from, to)
    \/ \E r \in Rows : MatrixClearRow(r)
    \/ MatrixCloneFrom
    \/ MatrixJoin
    \/ MatrixEq

SpecRows == Init /\ [][NextRows]_vars

----------------------------------------------------------------------------
(* The solver loop: one matrix, joined again and again with arbitrary      *)
(* matrices over the same column domain and row keys.                      *)

\* The matrix whose materialized rows and their members are given by f, a
\* function from a set of row keys to non-empty sets of column indices: what
\* new() followed by insert calls builds.
MatrixOf(be, d, f) ==
    [matrix |-> [r \in DOMAIN f |->
                    [set |-> [len |-> DomSize(d), bits |-> f[r]], domain |-> d]],
     empty_set |-> IndexSetNew(be, d),
     col_domain |-> d]

Matrices(be, d) ==
    UNION { { MatrixOf(be, d, f) : f \in [K -> (SUBSET Indices(d)) \ {{}}] } :
            K \in SUBSET Rows }

MaxJoins == NRows * NCols

InitJoin ==
    /\ backend \in Backends
    /\ m = new(backend, "d1")
    /\ other = new(backend, "d1")
    /\ call = Call("new", NoArg, NoArg)
    /\ ret = FALSE
    /\ fault = FALSE
    /\ bs = Empty(backend, NCols)
    /\ bo = Empty(backend, NCols)
    /\ joins = 0

\* m.join(&o), counted when it reports a change.
SolverJoin(o) ==
    /\ ~fault
    /\ joins <= MaxJoins
    /\ call' = Call("join", NoArg, NoArg)
    /\ Returns(join(backend, m, o))
    /\ joins' = IF ret' THEN joins + 1 ELSE joins
    /\ UNCHANGED <<backend, other, bs, bo>>

\* The arguments a join is given, per backend.
JoinArguments == [be \in Backends |-> Matrices(be, "d1")]

NextJoin == \E o \in JoinArguments[backend] : SolverJoin(o)

SpecJoin == InitJoin /\ [][NextJoin]_vars

----------------------------------------------------------------------------
(* Bit-set level state machine: bs is created by empty(NCols) and every    *)
(* operation of the trait is applied to it; bo is the other operand.       *)

InitBits ==
    /\ backend \in Backends
    /\ m = new(backend, "d1")
    /\ other = new(backend, "d1")
    /\ call = Call("empty", NoArg, NoArg)
    /\ ret = FALSE
    /\ fault = FALSE
    /\ bs = Empty(backend, NCols)
    /\ bo = Empty(backend, NCols)
    /\ joins = 0

\* A call on bs that returns res = [set, other, ret, panic].
BitReturns(res) ==
    IF res.panic
    THEN fault' = TRUE /\ bs' = bs /\ bo' = bo /\ ret' = FALSE
    ELSE fault' = FALSE /\ bs' = res.set /\ bo' = res.other /\ ret' = res.ret

BitInsert(i) ==
    /\ ~fault
    /\ call' = Call("insert", i, NoArg)
    /\ LET r == Insert(backend, bs, i)
       IN  BitReturns([set |-> r.set, other |-> bo, ret |-> r.ret, panic |-> r.panic])
    /\ UNCHANGED <<backend, m, other, joins>>

BitContains(i) ==
    /\ ~fault
    /\ call' = Call("contains", i, NoArg)
    /\ LET r == Contains(backend, bs, i)
       IN  BitReturns([set |-> bs, other |-> bo, ret |-> r.ret, panic |-> r.panic])
    /\ UNCHANGED <<backend, m, other, joins>>

BitUnion ==
    /\ ~fault
    /\ call' = Call("union", NoArg, NoArg)
    /\ BitReturns(UnionChanged(backend, bs, bo))
    /\ UNCHANGED <<backend, m, other, joins>>

BitIntersect ==
    /\ ~fault
    /\ call' = Call("intersect", NoArg, NoArg)
    /\ BitReturns(IntersectChanged(backend, bs, bo))
    /\ UNCHANGED <<backend, m, other, joins>>

BitSubtract ==
    /\ ~fault
    /\ call' = Call("subtract", NoArg, NoArg)
    /\ BitReturns(SubtractChanged(backend, bs, bo))
    /\ UNCHANGED <<backend, m, other, joins>>

BitInvert ==
    /\ ~fault
    /\ call' = Call("invert", NoArg, NoArg)
    /\ BitReturns([set |-> Invert(backend, bs), other |-> bo,
                   ret |-> FALSE, panic |-> FALSE])
    /\ UNCHANGED <<backend, m, other, joins>>

BitClear ==
    /\ ~fault
    /\ call' = Call("clear", NoArg, NoArg)
    /\ BitReturns([set |-> Clear(backend, bs), other |-> bo,
                   ret |-> FALSE, panic |-> FALSE])
    /\ UNCHANGED <<backend, m, other, joins>>

\* The other operand is built by empty(NCols) and inserts.
OperandEmpty ==
    /\ ~fault
    /\ call' = Call("operand_empty", NoArg, NoArg)
    /\ bo' = Empty(backend, NCols)
    /\ ret' = FALSE
    /\ UNCHANGED <<backend, m, other, fault, bs, joins>>

OperandInsert(i) ==
    /\ ~fault
    /\ call' = Call("operand_insert", i, NoArg)
    /\ LET r == Insert(backend, bo, i)
       IN  /\ bo' = r.set
           /\ ret' = r.ret
    /\ UNCHANGED <<backend, m, other, fault, bs, joins>>

NextBits ==
    \/ \E i \in 0 .. (NCols - 1) : BitInsert(i)
    \/ \E i \in 0 .. (NCols - 1) : BitContains(i)
    \/ BitUnion
    \/ BitIntersect
    \/ BitSubtract
    \/ BitInvert
    \/ BitClear
    \/ OperandEmpty
    \/ \E i \in 0 .. (NCols - 1) : OperandInsert(i)

SpecBits == InitBits /\ [][NextBits]_vars

----------------------------------------------------------------------------
(* What the claims speak of.                                               *)

\* The members of row r, materialized or not.
Members(mx, r) == row_set(mx, r).set.bits

\* The (row, col) pairs a matrix holds.
Pairs(mx) == { p \in Rows \X (0 .. (NCols - 1)) : p[2] \in Members(mx, p[1]) }

Count(mx) == Cardinality(Pairs(mx))

----------------------------------------------------------------------------
(* Claims.                                                                 *)

\* C1: union_rows(from, to) with from # to leaves row(to) equal to the union
\* of the old row(to) and the old row(from), enumerated in index order,
\* leaves every other row's members unchanged, and returns true exactly when
\* row(to) gained a member.
C1_UnionRows ==
    [][ (call'.op = "union_rows" /\ call'.a # call'.b /\ ~fault') =>
        LET from == call'.a
            to == call'.b
        IN  /\ Members(m', to) = Members(m, to) \cup Members(m, from)
            /\ row(m', to) = Ascending(Members(m, to) \cup Members(m, from))
            /\ \A r \in Rows \ {to} : Members(m', r) = Members(m, r)
            /\ ret' = (Members(m', to) # Members(m, to)) ]_vars

\* C2: union_rows(r, r) returns false and leaves the whole matrix unchanged:
\* no row's members change and no row is materialized.
C2_SelfUnionNoOp ==
    [][ (call'.op = "union_rows" /\ call'.a = call'.b) =>
        (ret' = FALSE /\ ~fault' /\ m' = m /\ rows(m') = rows(m)) ]_vars

\* C2 witness: union_rows(r, r) was called on a row that is not materialized
\* while another row holds members.
C2_Witness ==
    /\ call.op = "union_rows"
    /\ call.a = call.b
    /\ call.a \notin rows(m)
    /\ Pairs(m) # {}
    /\ ret = FALSE

\* C3: two matrices over the same column domain that hold the same set of
\* (row, col) pairs compare equal under ==.
C3_EqualOnPairs ==
    (call.op = "eq" /\ m.col_domain = other.col_domain /\ Pairs(m) = Pairs(other))
        => ret = TRUE

\* C4: a.join(b) leaves b unchanged, makes every row r of a equal to
\* old a.row_set(r) union b.row_set(r), and returns true iff at least one row
\* of a gained a member.
C4_JoinIsPointwiseUnion ==
    [][ (call'.op = "join" /\ ~fault') =>
        /\ other' = other
        /\ \A r \in Rows : Members(m', r) = Members(m, r) \cup Members(other, r)
        /\ ret' = (\E r \in Rows : Members(m', r) # Members(m, r)) ]_vars

\* C5: a join that immediately follows a join with the same argument, or
\* that joins a with a clone of a, returns false and leaves a unchanged.
C5_JoinIdempotent ==
    [][ (call.op \in {"join", "clone"} /\ call'.op = "join" /\ ~fault /\ other' = other) =>
        (ret' = FALSE /\ ~fault' /\ m' = m) ]_vars

\* C5 witness: a join was repeated with an argument that holds members and
\* returned false.
C5_Witness ==
    /\ call.op = "join"
    /\ call.a = 1
    /\ ret = FALSE
    /\ ~fault
    /\ Pairs(other) # {}
    /\ Pairs(m) # Pairs(other)

\* C6: under join the member count of the matrix never decreases, and at
\* most NRows * NCols joins return true.
C6_ProductiveJoinsBounded ==
    [][ Count(m') >= Count(m) /\ joins' <= NRows * NCols ]_vars

\* C6 witness: NRows * NCols joins have returned true, one member each.
C6_Witness == joins = NRows * NCols /\ Count(m) = NRows * NCols

\* C7: for same-capacity bit-sets, union reports true iff the cardinality of
\* self grew, intersect and subtract iff it shrank; the result is the set
\* union, intersection and difference, and other is not modified.
C7_ChangeReporting ==
    [][ (call'.op \in {"union", "intersect", "subtract"} /\ bs.len = bo.len) =>
        LET before == Cardinality(bs.bits)
            after == Cardinality(bs'.bits)
        IN  /\ ~fault'
            /\ bo' = bo
            /\ bs'.len = bs.len
            /\ call'.op = "union" =>
                 (bs'.bits = bs.bits \cup bo.bits /\ ret' = (after > before))
            /\ call'.op = "intersect" =>
                 (bs'.bits = bs.bits \cap bo.bits /\ ret' = (after < before))
            /\ call'.op = "subtract" =>
                 (bs'.bits = bs.bits \ bo.bits /\ ret' = (after < before)) ]_vars

\* C7 witness: a BitVec subtract removed some but not all members of self.
C7_Witness ==
    /\ backend = "bitvec"
    /\ call.op = "subtract"
    /\ ret = TRUE
    /\ bs.len = bo.len
    /\ bs.bits # {}
    /\ bo.bits # {}

\* C8: the capacity of a set created by empty(NCols) is still NCols after
\* any sequence of operations, and contains(i) and insert(i) stay defined
\* for every i < NCols.
C8_CapacityFixed == bs.len = NCols /\ ~fault

\* C9: every materialized row and the cached empty-row set refer to the
\* matrix's current column domain.
C9_RowsShareDomain ==
    /\ m.empty_set.domain = m.col_domain
    /\ \A r \in rows(m) : m.matrix[r].domain = m.col_domain

\* C10: after d.clone_from(s), every row of d has exactly the members of the
\* same row of s, d == s holds and rows() yields the same keys for both.
C10_CloneFromIsClone ==
    call.op = "clone_from" =>
        /\ \A r \in Rows : Members(m, r) = Members(other, r)
        /\ eq(m, other)
        /\ rows(m) = rows(other)

====
